---- MODULE Spec2Model ----
(***************************************************************************)
(* Magic 8-ball Slack bot: the socket-mode event loop (handleAppMention)   *)
(* and the /ask8ball HTTP handler (handleSlashCommand), in the three       *)
(* program variants of the repository:                                     *)
(*   "hybrid"  src/main.go                  event loop + HTTP server       *)
(*   "socket"  src/unnamed/part_000:1-134   event loop only                *)
(*   "http"    src/unnamed/part_000:136-286 HTTP server only               *)
(* A text is a sequence of one-character strings; a reply is a string.     *)
(***************************************************************************)
EXTENDS Integers, Sequences, FiniteSets, TLC

VARIABLES
    variant,      \* which of the three programs is running
    mainPc,       \* position of the main goroutine
    evt,          \* the event last taken from socketClient.Events
    sent,         \* outbound calls made for evt, in order (Ack, PostMessage)
    userQuery,    \* handleAppMention: userQuery
    mreply,       \* handleAppMention: reply
    mdraw,        \* handleAppMention: index returned by rand.Intn, or NoDraw
    postErr,      \* handleAppMention: err of client.PostMessage
    mlog,         \* log lines written while handling evt
    alive,        \* the process has not exited
    fatal,        \* the line of the log.Fatal call that ended the process
    prevFailed,   \* the post of the event handled before evt failed
    req,          \* the HTTP request last served
    resp,         \* the ResponseWriter after the handler returned
    steps,        \* stages handleSlashCommand went through, in order
    payloadText,  \* handleSlashCommand: payload.Text
    sreply,       \* handleSlashCommand: reply
    sdraw,        \* handleSlashCommand: index returned by rand.Intn, or NoDraw
    slog,         \* log lines written while serving req
    nx,           \* normalisation harness: the input text
    n1,           \* normalisation harness: removeBotMention(nx)
    n2,           \* normalisation harness: removeBotMention(n1)
    npc           \* normalisation harness: position

vars == <<variant, mainPc, evt, sent, userQuery, mreply, mdraw, postErr, mlog,
          alive, fatal, prevFailed, req, resp, steps, payloadText, sreply, sdraw,
          slog, nx, n1, n2, npc>>

botVars  == <<variant, mainPc, evt, sent, userQuery, mreply, mdraw, postErr,
              mlog, alive, fatal, prevFailed>>
httpVars == <<req, resp, steps, payloadText, sreply, sdraw, slog>>
normVars == <<nx, n1, n2, npc>>

(***************************************************************************)
(* Bounds                                                                  *)
(***************************************************************************)
\* longest text fed to the normalisation harness
MaxLen == 8

(***************************************************************************)
(* Strings                                                                 *)
(***************************************************************************)
Upper == <<"A","B","C","D","E","F","G","H","I","J","K","L","M",
           "N","O","P","Q","R","S","T","U","V","W","X","Y","Z">>
Lower == <<"a","b","c","d","e","f","g","h","i","j","k","l","m",
           "n","o","p","q","r","s","t","u","v","w","x","y","z">>

\* unicode.ToLower on one (ASCII) character
ToLowerChar(c) ==
    IF \E i \in 1..Len(Upper) : Upper[i] = c
    THEN Lower[CHOOSE i \in 1..Len(Upper) : Upper[i] = c]
    ELSE c

\* strings.ToLower
ToLower(s) == [i \in 1..Len(s) |-> ToLowerChar(s[i])]

\* unicode.IsSpace, on the characters the model uses
IsSpace(c) == c \in {" ", "\t", "\n"}

\* strings.TrimSpace: drop leading and trailing white space
TrimSpace(s) ==
    LET keep == {i \in 1..Len(s) : ~IsSpace(s[i])}
    IN  IF keep = {} THEN <<>>
        ELSE LET lo == CHOOSE i \in keep : \A j \in keep : i <= j
                 hi == CHOOSE i \in keep : \A j \in keep : j <= i
             IN  SubSeq(s, lo, hi)

\* strings.HasSuffix(s, "?")
HasSuffixQ(s) == Len(s) > 0 /\ s[Len(s)] = "?"

\* strings.HasPrefix
HasPrefix(s, p) == Len(p) <= Len(s) /\ SubSeq(s, 1, Len(p)) = p

(***************************************************************************)
(* removeBotMention: regexp `<@[^>]+>`, ReplaceAllString(text, ""), then   *)
(* strings.TrimSpace.                                                      *)
(***************************************************************************)
\* End index of the match of `<@[^>]+>` that starts at i, or 0 when none starts
\* there: "<", "@", then one or more characters other than ">", then ">".
MentionEndAt(s, i) ==
    IF i + 3 <= Len(s) /\ s[i] = "<" /\ s[i+1] = "@" /\ s[i+2] # ">"
       /\ \E j \in (i+3)..Len(s) : s[j] = ">"
    THEN CHOOSE j \in (i+3)..Len(s) :
             s[j] = ">" /\ \A k \in (i+3)..(j-1) : s[k] # ">"
    ELSE 0

\* mentionPattern.ReplaceAllString(s, ""): one left-to-right pass over the
\* leftmost non-overlapping matches; the result is not scanned again.
RECURSIVE ReplaceAllFrom(_, _)
ReplaceAllFrom(s, i) ==
    IF i > Len(s) THEN <<>>
    ELSE LET e == MentionEndAt(s, i)
         IN  IF e > 0 THEN ReplaceAllFrom(s, e + 1)
             ELSE <<s[i]>> \o ReplaceAllFrom(s, i + 1)

ReplaceAllMentions(s) == ReplaceAllFrom(s, 1)

removeBotMention(text) == TrimSpace(ReplaceAllMentions(text))

(***************************************************************************)
(* Normalisation harness: removeBotMention applied once, then again to its *)
(* own result, on every text over NormAlphabet of at most MaxLen           *)
(* characters.  " " is both white space and a character other than ">".    *)
(***************************************************************************)
NormAlphabet == {"<", "@", ">", " "}

RECURSIVE TextsUpTo(_)
TextsUpTo(n) ==
    IF n = 0 THEN {<<>>}
    ELSE LET shorter == TextsUpTo(n - 1)
         IN  shorter \cup {Append(t, c) : t \in {u \in shorter : Len(u) = n - 1},
                                          c \in NormAlphabet}

NormInputs == TextsUpTo(MaxLen)

NormInit ==
    /\ nx \in NormInputs
    /\ n1 = <<>>
    /\ n2 = <<>>
    /\ npc = "start"

ApplyOnce ==
    /\ npc = "start"
    /\ n1' = removeBotMention(nx)
    /\ npc' = "once"
    /\ UNCHANGED <<nx, n2>>
    /\ UNCHANGED botVars
    /\ UNCHANGED httpVars

ApplyTwice ==
    /\ npc = "once"
    /\ n2' = removeBotMention(n1)
    /\ npc' = "twice"
    /\ UNCHANGED <<nx, n1>>
    /\ UNCHANGED botVars
    /\ UNCHANGED httpVars

(***************************************************************************)
(* Replies                                                                 *)
(***************************************************************************)
magicResponse == <<
    "Signs point to no.", "Yes.", "Reply hazy, try again.", "Without a doubt.",
    "My sources say no.", "As I see it, yes.", "You may rely on it.",
    "Concentrate and ask again.", "Outlook not so good.", "It is decidedly so.",
    "Better not tell you now.", "Very doubtful.", "Yes - definitely.",
    "It is certain.", "Cannot predict now.", "Most likely.", "Ask again later.",
    "My reply is no.", "Outlook good.", "Don't count on it." >>

WheresTheQuestion == "Where's the question?"
NotATarotDeck     == "I'm not a tarot deck. Yes or no questions please."
Placeholder       == "Magic 8-ball is here! (This is a test response)"

\* the value of a draw variable when rand.Intn was not called
NoDraw == -1

\* rand.Intn(n): some index in [0, n)
Intn(n) == 0..(n - 1)

QuestionWords == { <<"w","h","o">>, <<"w","h","a","t">>, <<"w","h","e","n">>,
                   <<"w","h","e","r","e">>, <<"w","h","y">>, <<"h","o","w">>,
                   <<"i","f">> }

\* as MatchQuestionWord, but the word must end where the text or a character
\* that is no letter begins
MatchWholeWord(s) ==
    \E w \in QuestionWords :
        /\ HasPrefix(s, w)
        /\ (Len(s) = Len(w) \/ \A i \in 1..Len(Lower) : Lower[i] # s[Len(w) + 1])

\* regexp.MatchString("^(who|what|when|where|why|how|if).*", s): ^ anchors the
\* alternation at position 0 and .* accepts any rest, the empty one included.
MatchQuestionWord(s) == \E w \in QuestionWords : HasPrefix(s, w)

\* The branch the reply statement takes on text (the regexp error branch cannot
\* be taken: the pattern is a valid constant).
Classify(text) ==
    IF ~HasSuffixQ(text) THEN "NotAQuestion"
    ELSE IF MatchQuestionWord(ToLower(text)) THEN "OpenEndedQuestion"
    ELSE "YesNoQuestion"

\* The values rand.Intn(len(magicResponse)) can return on text: it is called
\* in the last branch only.
Draws(text) ==
    IF Classify(text) = "YesNoQuestion" THEN Intn(Len(magicResponse)) ELSE {NoDraw}

\* var reply string; if !strings.HasSuffix(...) { ... } else { ... }
\* idx is the value rand.Intn returned, NoDraw when it was not called.
ComputeReply(text, idx) ==
    CASE Classify(text) = "NotAQuestion"      -> WheresTheQuestion
      [] Classify(text) = "OpenEndedQuestion" -> NotATarotDeck
      [] OTHER                                -> magicResponse[idx + 1]

(***************************************************************************)
(* Inputs                                                                  *)
(***************************************************************************)
WillItRain    == <<"W","i","l","l"," ","i","t"," ","r","a","i","n","?">>
WhoWillWin    == <<"W","h","o"," ","w","i","l","l"," ","w","i","n","?">>
NoPunctuation == <<"n","o"," ","p","u","n","c","t","u","a","t","i","o","n">>
IsThisReal    == <<"<","@","U","1","2","3","A","B","C",">"," ",
                   "i","s"," ","t","h","i","s"," ","r","e","a","l","?">>
However       == <<"H","o","w","e","v","e","r","?">>
PaddedIf      == <<" ","<","@","U","1",">"," ","I","f"," ","s","o","?"," ">>

Texts    == {WillItRain, WhoWillWin, NoPunctuation, IsThisReal, However, PaddedIf}
Channels == {"C1", "C2"}
BotUser  == "U9"

(***************************************************************************)
(* Socket-mode event loop                                                  *)
(***************************************************************************)
NoEvt == [type |-> "none", castOk |-> FALSE, inner |-> "none",
          text |-> <<>>, channel |-> "", user |-> ""]

Plain(t) == [NoEvt EXCEPT !.type = t]

\* what socketClient.Events can deliver
Events ==
    {Plain("connecting"), Plain("connected"), Plain("hello")}
    \cup {[NoEvt EXCEPT !.type = "events_api"]}
    \cup {[NoEvt EXCEPT !.type = "events_api", !.castOk = TRUE, !.inner = "message"]}
    \cup {[type |-> "events_api", castOk |-> TRUE, inner |-> "app_mention",
           text |-> t, channel |-> c, user |-> BotUser] : t \in Texts, c \in Channels}

Ack == [call |-> "Ack", channel |-> "", text |-> ""]
PostMessage(channel, text) == [call |-> "PostMessage", channel |-> channel, text |-> text]

L(msg, arg) == [msg |-> msg, arg |-> arg]

\* as AcksFor, without the acknowledgement on the failed cast
AcksForCastOnly(e) ==
    IF e.type = "events_api" /\ e.castOk THEN <<Ack>> ELSE <<>>

\* as AcksFor, with the acknowledgement of an app mention left to its handler
AcksSkippingMentions(e) ==
    IF e.type = "events_api" /\ ~(e.castOk /\ e.inner = "app_mention")
    THEN <<Ack>> ELSE <<>>

\* switch evt.Type: the socketClient.Ack calls of one loop iteration
AcksFor(e) ==
    IF e.type = "events_api" THEN <<Ack>> ELSE <<>>

\* switch evt.Type: the log lines of one loop iteration
SwitchLog(e) ==
    CASE e.type = "connecting" -> <<L("Connecting to Slack...", "")>>
      [] e.type = "connected"  -> <<L("Connected to Slack!", "")>>
      [] OTHER                 -> <<>>

\* switch event := eventsAPIEvent.InnerEvent.Data.(type)
IsMention(e) == e.type = "events_api" /\ e.castOk /\ e.inner = "app_mention"

\* for evt := range socketClient.Events { switch evt.Type { ... } } up to the
\* call of handleAppMention
ReceiveEvent ==
    /\ variant \in {"hybrid", "socket"}
    /\ alive
    /\ mainPc = "recv"
    /\ \E e \in Events :
        /\ evt' = e
        /\ sent' = AcksFor(e)
        /\ mlog' = SwitchLog(e)
        /\ mainPc' = IF IsMention(e) THEN "handle" ELSE "recv"
    /\ prevFailed' = postErr
    /\ userQuery' = <<>>
    /\ mreply' = ""
    /\ mdraw' = NoDraw
    /\ postErr' = FALSE
    /\ UNCHANGED <<variant, alive, fatal>>
    /\ UNCHANGED httpVars
    /\ UNCHANGED normVars

\* the log lines handleAppMention writes before the post (src/main.go only)
MentionLog(v, reply) ==
    IF v = "hybrid"
    THEN <<L("Received mention", ""), L("Processed query", ""), L("Replying with", reply)>>
    ELSE <<>>

\* handleAppMention up to the call of client.PostMessage
HandleAppMention ==
    /\ alive
    /\ mainPc = "handle"
    /\ LET q == removeBotMention(TrimSpace(evt.text))
       IN  \E idx \in Draws(q) :
            /\ userQuery' = q
            /\ mdraw' = idx
            /\ mreply' = ComputeReply(q, idx)
            /\ mlog' = mlog \o MentionLog(variant, ComputeReply(q, idx))
    /\ mainPc' = "post"
    /\ UNCHANGED <<variant, evt, sent, postErr, alive, fatal, prevFailed>>
    /\ UNCHANGED httpVars
    /\ UNCHANGED normVars

\* the channel the reply is posted to
PostChannel(e) == e.channel

\* as OnPostResult, with log.Fatalf in place of log.Printf
OnPostResultFatal(err) ==
    [log   |-> IF err THEN <<L("Error sending message", "")>> ELSE <<>>,
     alive |-> ~err,
     pc    |-> "recv"]

\* if err != nil { log.Printf("Error sending message: %v", err) }
OnPostResult(err) ==
    [log   |-> IF err THEN <<L("Error sending message", "")>> ELSE <<>>,
     alive |-> TRUE,
     pc    |-> "recv"]

\* client.PostMessage(event.Channel, slack.MsgOptionText(reply, false)) and
\* the return to the event loop; err is what the call returned
PostReply ==
    /\ alive
    /\ mainPc = "post"
    /\ \E err \in BOOLEAN :
        /\ postErr' = err
        /\ sent' = Append(sent, PostMessage(PostChannel(evt), mreply))
        /\ mlog' = mlog \o OnPostResult(err).log
        /\ alive' = OnPostResult(err).alive
        /\ mainPc' = OnPostResult(err).pc
    /\ UNCHANGED <<variant, evt, userQuery, mreply, mdraw, fatal, prevFailed>>
    /\ UNCHANGED httpVars
    /\ UNCHANGED normVars

(***************************************************************************)
(* net/http: the ResponseWriter and the request body                       *)
(***************************************************************************)
NoHeaders == [ct |-> "", nosniff |-> ""]

\* header: w.Header(), the handler's map; sentHeader: the headers committed
\* with the status line; extra: WriteHeader calls after the first.
NewWriter == [wroteHeader |-> FALSE, status |-> 0, header |-> NoHeaders,
              sentHeader |-> NoHeaders, body |-> "", extra |-> 0]

\* w.Header().Set("Content-Type", v): changes the handler's map only
SetContentType(w, v) == [w EXCEPT !.header.ct = v]

\* w.WriteHeader(code): the first call commits code and a snapshot of the map
WriteHeader(w, code) ==
    IF w.wroteHeader THEN [w EXCEPT !.extra = @ + 1]
    ELSE [w EXCEPT !.wroteHeader = TRUE, !.status = code, !.sentHeader = w.header]

\* http.DetectContentType: a JSON object or an error line matches no signature
\* and holds no binary byte
DetectContentType(data) == "text/plain; charset=utf-8"

\* w.Write(data): commits 200 when nothing was committed; the first write
\* sniffs a Content-Type when the committed headers hold none
Write(w, data) ==
    LET w1 == IF w.wroteHeader THEN w ELSE WriteHeader(w, 200)
        w2 == IF w1.body = "" /\ w1.sentHeader.ct = "" /\ data # ""
              THEN [w1 EXCEPT !.sentHeader.ct = DetectContentType(data)]
              ELSE w1
    IN  [w2 EXCEPT !.body = @ \o data]

\* http.Error(w, msg, code)
HttpError(w, msg, code) ==
    LET w1 == [w EXCEPT !.header.ct = "text/plain; charset=utf-8",
                        !.header.nosniff = "nosniff"]
    IN  Write(WriteHeader(w1, code), msg \o "\n")

\* json.Marshal(map[string]string{"text": reply}); no reply of the program
\* holds a character that Marshal escapes
Marshal(reply) == "{\"text\":\"" \o reply \o "\"}"

\* the form-encoded body of a slash command whose text field is t
FormBody(t) == <<[key |-> "text", value |-> t]>>

\* io.ReadAll(r.Body): everything that is left, and nothing is left after it
ReadAll(body) == [data |-> body, rest |-> <<>>]

\* r.PostForm.Get(key): the first value of key, "" when there is none
PostFormGet(form, key) ==
    IF \E i \in 1..Len(form) : form[i].key = key
    THEN form[CHOOSE i \in 1..Len(form) :
                 form[i].key = key /\ \A j \in 1..(i-1) : form[j].key # key].value
    ELSE <<>>

(***************************************************************************)
(* slack.NewSecretsVerifier / sv.Write / sv.Ensure                         *)
(***************************************************************************)
SigningSecret == "secret"

\* HMAC-SHA256 under key of "v0:" ts ":" body
Mac(key, ts, body) == <<key, ts, body>>

Absent  == [enc |-> "absent", mac |-> <<>>]
NotHex  == [enc |-> "nothex", mac |-> <<>>]
Hex(m)  == [enc |-> "hex", mac |-> m]

\* NewSecretsVerifier(r.Header, signingSecret): fails on a missing signature
\* or timestamp header, a signature that is not hex, a stale timestamp
NewSecretsVerifierOk(r) ==
    /\ r.signature.enc # "absent"
    /\ r.timestamp # ""
    /\ r.signature.enc = "hex"
    /\ r.timestamp = "fresh"

\* as Ensure, with the error of sv.Ensure() dropped
EnsureIgnored(r, data) == TRUE

\* sv.Write(body); sv.Ensure(): the MAC of what was read equals the header's
Ensure(r, data) == r.signature.mac = Mac(SigningSecret, r.timestamp, data)

NoReq == [method |-> "none", readOk |-> FALSE, signature |-> Absent,
          timestamp |-> "", ctype |-> "", body |-> <<>>]

FormType == "application/x-www-form-urlencoded"

Post(sg, ts, ct, t) ==
    [method |-> "POST", readOk |-> TRUE, signature |-> sg, timestamp |-> ts,
     ctype |-> ct, body |-> FormBody(t)]

\* the POST requests with text t: one per way the signature headers can be
\* wrong, and the correctly signed one under both content types (the content
\* type is read by the parse only)
PostRequests(t) ==
    { Post(Absent, "fresh", FormType, t),
      Post(NotHex, "fresh", FormType, t),
      Post(Hex(Mac("forged", "fresh", FormBody(t))), "fresh", FormType, t),
      Post(Hex(Mac(SigningSecret, "", FormBody(t))), "", FormType, t),
      Post(Hex(Mac(SigningSecret, "stale", FormBody(t))), "stale", FormType, t),
      Post(Hex(Mac(SigningSecret, "fresh", FormBody(t))), "fresh", FormType, t),
      Post(Hex(Mac(SigningSecret, "fresh", FormBody(t))), "fresh", "bad/", t) }

\* the requests the server can be sent
Requests ==
    {[NoReq EXCEPT !.method = "GET"], [NoReq EXCEPT !.method = "POST"]}
    \cup UNION {PostRequests(t) : t \in Texts}

(***************************************************************************)
(* handleSlashCommand                                                      *)
(***************************************************************************)
\* what the handler leaves behind when it returns
Outcome(w, st, text, reply, draw, log) ==
    [w |-> w, steps |-> st, text |-> text, reply |-> reply, draw |-> draw, log |-> log]

\* slack.SlashCommandParse(r): r.ParseForm() reads what is left of r.Body and
\* fails on a Content-Type that is no media type; payload.Text is
\* r.PostForm.Get("text")
SlashCommandParseOk(r) == r.ctype # "bad/"
SlashCommandParse(rest) == PostFormGet(rest, "text")

\* from "Respond immediately to Slack" to the end, src/main.go: the status is
\* committed, the header set, the reply computed, logged, marshalled, written
RespondHybrid(w, st, text, idx) ==
    LET w1    == WriteHeader(w, 200)
        w2    == SetContentType(w1, "application/json")
        reply == ComputeReply(text, idx)
        w3    == Write(w2, Marshal(reply))
    IN  Outcome(w3, st \o <<"writeHeader", "setHeader", "compute", "log", "write">>,
                text, reply, idx, <<L("Slash Command Replying with", reply)>>)

\* from "Determine the response" to the end, src/unnamed/part_000: the reply
\* is computed and logged, the response map holds the fixed text
RespondHttp(w, st, text, idx) ==
    LET reply == ComputeReply(text, idx)
        w1    == WriteHeader(w, 200)
        w2    == SetContentType(w1, "application/json")
        w3    == Write(w2, Marshal(Placeholder))
    IN  Outcome(w3, st \o <<"compute", "log", "writeHeader", "setHeader", "write">>,
                text, reply, idx, <<L("Slash Command Replying with", reply)>>)

Respond(v, w, st, text, idx) ==
    IF v = "http" THEN RespondHttp(w, st, text, idx)
                  ELSE RespondHybrid(w, st, text, idx)

\* the handler on request r up to the reply statement: the outcome of an early
\* return, or the payload text and the stages gone through
BeforeReply(r) ==
    LET w == NewWriter
    IN  IF r.method # "POST"
        THEN [done |-> TRUE,
              out |-> Outcome(HttpError(w, "Method not allowed", 405),
                              <<"method">>, <<>>, "", NoDraw, <<>>)]
        ELSE IF ~r.readOk
        THEN [done |-> TRUE,
              out |-> Outcome(HttpError(w, "Bad request", 400),
                              <<"method", "readAll">>, <<>>, "", NoDraw,
                              <<L("Error reading request body", "")>>)]
        ELSE LET rd == ReadAll(r.body)
             IN  IF ~NewSecretsVerifierOk(r)
                 THEN [done |-> TRUE,
                       out |-> Outcome(HttpError(w, "Bad request", 400),
                                       <<"method", "readAll", "newVerifier">>,
                                       <<>>, "", NoDraw,
                                       <<L("Error creating secrets verifier", "")>>)]
                 ELSE IF ~Ensure(r, rd.data)
                 THEN [done |-> TRUE,
                       out |-> Outcome(HttpError(w, "Forbidden", 403),
                                       <<"method", "readAll", "newVerifier", "ensure">>,
                                       <<>>, "", NoDraw,
                                       <<L("Error verifying signature", "")>>)]
                 ELSE IF ~SlashCommandParseOk(r)
                 THEN [done |-> TRUE,
                       out |-> Outcome(HttpError(w, "Bad request", 400),
                                       <<"method", "readAll", "newVerifier", "ensure",
                                         "parse">>,
                                       <<>>, "", NoDraw,
                                       <<L("Error parsing slash command", "")>>)]
                 ELSE [done |-> FALSE,
                       out |-> Outcome(w, <<"method", "readAll", "newVerifier", "ensure",
                                            "parse">>,
                                       SlashCommandParse(rd.rest), "", NoDraw, <<>>)]

\* the values rand.Intn can return while r is served
SlashDraws(r) ==
    IF BeforeReply(r).done THEN {NoDraw} ELSE Draws(BeforeReply(r).out.text)

\* handleSlashCommand(w, r, signingSecret, client) on request r
Serve(v, r, idx) ==
    LET b == BeforeReply(r)
    IN  IF b.done THEN b.out
        ELSE Respond(v, b.out.w, b.out.steps, b.out.text, idx)

\* one request to /ask8ball, served by its own goroutine
HandleSlashCommand ==
    /\ variant \in {"hybrid", "http"}
    /\ alive
    /\ mainPc # "boot"
    /\ \E r \in Requests : \E idx \in SlashDraws(r) :
        LET o == Serve(variant, r, idx)
        IN  /\ req' = r
            /\ resp' = o.w
            /\ steps' = o.steps
            /\ payloadText' = o.text
            /\ sreply' = o.reply
            /\ sdraw' = o.draw
            /\ slog' = o.log
    /\ UNCHANGED botVars
    /\ UNCHANGED normVars

(***************************************************************************)
(* Start-up and the two server goroutines                                  *)
(***************************************************************************)
EnvNames == {"SLACK_BOT_TOKEN", "SLACK_APP_TOKEN", "SLACK_SIGNING_SECRET"}

\* the variables main requires to be non-empty
Required(v) ==
    CASE v = "hybrid" -> {"SLACK_BOT_TOKEN", "SLACK_APP_TOKEN", "SLACK_SIGNING_SECRET"}
      [] v = "socket" -> {"SLACK_BOT_TOKEN", "SLACK_APP_TOKEN"}
      [] OTHER        -> {"SLACK_BOT_TOKEN", "SLACK_SIGNING_SECRET"}

\* log.Fatal / log.Fatalf: the line is logged and the process exits
Exit(line) ==
    /\ alive' = FALSE
    /\ fatal' = line

\* main from os.Getenv to the start of the goroutines; env is the set of
\* variables that are set and non-empty
Startup ==
    /\ alive
    /\ mainPc = "boot"
    /\ \E env \in SUBSET EnvNames :
        IF Required(variant) \subseteq env
        THEN /\ mainPc' = IF variant = "http" THEN "serve" ELSE "recv"
             /\ UNCHANGED <<alive, fatal>>
        ELSE /\ Exit("Error: tokens must be set")
             /\ UNCHANGED mainPc
    /\ UNCHANGED <<variant, evt, sent, userQuery, mreply, mdraw, postErr, mlog,
                   prevFailed>>
    /\ UNCHANGED httpVars
    /\ UNCHANGED normVars

\* go func() { err := socketClient.Run(); if err != nil { log.Fatalf(...) } }()
\* with a non-nil err
SocketRunFails ==
    /\ variant \in {"hybrid", "socket"}
    /\ alive
    /\ mainPc # "boot"
    /\ Exit("Error running socketmode client")
    /\ UNCHANGED <<variant, mainPc, evt, sent, userQuery, mreply, mdraw, postErr,
                   mlog, prevFailed>>
    /\ UNCHANGED httpVars
    /\ UNCHANGED normVars

\* if err := http.ListenAndServe(":"+port, nil); err != nil { log.Fatalf(...) }
ListenAndServeFails ==
    /\ variant \in {"hybrid", "http"}
    /\ alive
    /\ mainPc # "boot"
    /\ Exit("Error starting HTTP server")
    /\ UNCHANGED <<variant, mainPc, evt, sent, userQuery, mreply, mdraw, postErr,
                   mlog, prevFailed>>
    /\ UNCHANGED httpVars
    /\ UNCHANGED normVars

(***************************************************************************)
(* Specifications                                                          *)
(***************************************************************************)
NormIdle ==
    /\ nx = <<>>
    /\ n1 = <<>>
    /\ n2 = <<>>
    /\ npc = "off"

BotInit ==
    /\ variant \in {"hybrid", "socket", "http"}
    /\ mainPc = "boot"
    /\ evt = NoEvt
    /\ sent = <<>>
    /\ userQuery = <<>>
    /\ mreply = ""
    /\ mdraw = NoDraw
    /\ postErr = FALSE
    /\ mlog = <<>>
    /\ alive = TRUE
    /\ fatal = ""
    /\ prevFailed = FALSE
    /\ req = NoReq
    /\ resp = NewWriter
    /\ steps = <<>>
    /\ payloadText = <<>>
    /\ sreply = ""
    /\ sdraw = NoDraw
    /\ slog = <<>>

Init == BotInit /\ NormIdle

Next ==
    \/ Startup
    \/ SocketRunFails
    \/ ListenAndServeFails
    \/ ReceiveEvent
    \/ HandleAppMention
    \/ PostReply
    \/ HandleSlashCommand

Spec == Init /\ [][Next]_vars

\* removeBotMention on its own: the bot is not running
InitNorm ==
    /\ NormInit
    /\ variant = "socket"
    /\ mainPc = "off"
    /\ evt = NoEvt
    /\ sent = <<>>
    /\ userQuery = <<>>
    /\ mreply = ""
    /\ mdraw = NoDraw
    /\ postErr = FALSE
    /\ mlog = <<>>
    /\ alive = FALSE
    /\ fatal = ""
    /\ prevFailed = FALSE
    /\ req = NoReq
    /\ resp = NewWriter
    /\ steps = <<>>
    /\ payloadText = <<>>
    /\ sreply = ""
    /\ sdraw = NoDraw
    /\ slog = <<>>

NextNorm ==
    \/ ApplyOnce
    \/ ApplyTwice

SpecNorm == InitNorm /\ [][NextNorm]_vars

(***************************************************************************)
(* Vocabulary of the properties                                            *)
(***************************************************************************)
Pool == {magicResponse[i] : i \in 1..Len(magicResponse)}

CountCalls(calls, name) == Cardinality({i \in 1..Len(calls) : calls[i].call = name})

Has(st, stage) == \E i \in 1..Len(st) : st[i] = stage

\* text ends in "?" and its lower-cased form starts with a question word
OpenEnded(t) ==
    /\ Len(t) > 0 /\ t[Len(t)] = "?"
    /\ \E w \in QuestionWords :
          Len(w) <= Len(t) /\ \A i \in 1..Len(w) : ToLowerChar(t[i]) = w[i]

\* text ends in "?" and its lower-cased form starts with no question word
YesNo(t) ==
    /\ Len(t) > 0 /\ t[Len(t)] = "?"
    /\ ~OpenEnded(t)

\* the category a reply string stands for
ReplyClass(r) ==
    CASE r = WheresTheQuestion -> "NotAQuestion"
      [] r = NotATarotDeck     -> "OpenEndedQuestion"
      [] r \in Pool            -> "YesNoQuestion"
      [] OTHER                 -> "none"

\* the mention event evt has been handled to the end
MentionDone == IsMention(evt) /\ mainPc = "recv"

\* the last request passed the method, signature and parse checks
SlashAccepted == Has(steps, "compute")

\* the header signature is the MAC of the body under the signing secret
RightMac(r) == r.signature = Hex(Mac(SigningSecret, r.timestamp, r.body))

\* a readable POST that carries a signature header which is not the right one
InvalidSignature(r) ==
    /\ r.method = "POST" /\ r.readOk
    /\ r.signature.enc # "absent"
    /\ ~RightMac(r)

\* a readable POST, correctly signed, in the form encoding
WellFormed(r) ==
    /\ r.method = "POST" /\ r.readOk
    /\ RightMac(r) /\ r.timestamp = "fresh"
    /\ r.ctype = FormType

(***************************************************************************)
(* Properties                                                              *)
(***************************************************************************)
\* C1: for every slash-command request that passes the method, signature and
\* parse checks, the text of the JSON body written to the response is the
\* reply the handler computed for it, never a fixed placeholder.
C1_BodyIsComputedReply ==
    SlashAccepted => resp.body = Marshal(sreply)

\* C2: a yes/no question (ends in "?", starts with no question word) is
\* answered, on the mention path and on the correctly signed slash path, with
\* a non-empty member of the 20-entry pool, drawn at an index in [0, 20).
C2_YesNoAnsweredFromPool ==
    /\ (MentionDone /\ YesNo(userQuery)) =>
          /\ mdraw \in 0..19
          /\ \E i \in 1..Len(sent) :
                /\ sent[i].call = "PostMessage"
                /\ sent[i].text \in Pool /\ sent[i].text # ""
    /\ (WellFormed(req) /\ YesNo(req.body[1].value)) =>
          /\ sdraw \in 0..19
          /\ \E a \in Pool : a # "" /\ resp.body = Marshal(a)

\* C3 as stated: a request carrying an invalid signature header is answered
\* 403 and never reaches form parsing or reply computation.
C3_InvalidSignatureIs403 ==
    InvalidSignature(req) =>
        /\ resp.status = 403
        /\ ~Has(steps, "parse") /\ ~Has(steps, "compute")

\* C3 amended: a readable POST whose signature header is hex but not the MAC
\* of the body (timestamp fresh) is answered 403; one whose signature header
\* is missing or not hex, or whose timestamp is missing or stale, is answered
\* 400; in all these cases the handler never reaches form parsing or reply
\* computation, and no reply is computed, logged or written.
C3_RejectedBeforeParse ==
    (req.method = "POST" /\ req.readOk /\ ~(RightMac(req) /\ req.timestamp = "fresh")) =>
        /\ resp.status =
              IF req.signature.enc = "hex" /\ req.timestamp = "fresh" THEN 403 ELSE 400
        /\ ~Has(steps, "parse") /\ ~Has(steps, "compute") /\ ~Has(steps, "write")
        /\ sreply = "" /\ sdraw = NoDraw
        /\ \A i \in 1..Len(slog) : slog[i].arg = ""
        /\ resp.body \in {"Forbidden\n", "Bad request\n"}

C3_Witness ==
    /\ req.signature.enc = "hex" /\ req.signature.mac[1] = "forged"
    /\ req.body = FormBody(WillItRain)
    /\ resp.status = 403
    /\ steps = <<"method", "readAll", "newVerifier", "ensure">>

\* C4: removeBotMention is idempotent: applying it to its own result changes
\* nothing.
C4_Idempotent ==
    npc = "twice" => n2 = n1

\* C5: the mention path and the slash path classify the same raw text the
\* same way.
C5_SameClassification ==
    (/\ IsMention(evt) /\ mainPc \in {"post", "recv"}
     /\ SlashAccepted
     /\ req.body = FormBody(evt.text)) =>
        ReplyClass(mreply) = ReplyClass(sreply)

\* C6: every events-API payload taken from the stream is acknowledged exactly
\* once (cast failure, app mention, other inner event alike); connecting and
\* connected events are never acknowledged and produce no reply.
C6_AckedExactlyOnce ==
    /\ evt.type = "events_api" => CountCalls(sent, "Ack") = 1
    /\ evt.type \in {"connecting", "connected"} => sent = <<>>
    /\ ~IsMention(evt) => CountCalls(sent, "PostMessage") = 0

C6_Witness ==
    /\ evt.type = "events_api" /\ ~evt.castOk
    /\ sent = <<Ack>>

\* C7: for a mention event the acknowledgement is issued before the reply is
\* computed and before it is posted; the reply is a separate outbound call to
\* the event's channel.
C7_AckBeforeReply ==
    IsMention(evt) =>
        /\ mainPc = "handle" => (sent = <<Ack>> /\ mreply = "")
        /\ mainPc = "post"   => (sent = <<Ack>> /\ mreply # "")
        /\ mainPc = "recv"   => sent = <<Ack, PostMessage(evt.channel, mreply)>>

C7_Witness ==
    /\ IsMention(evt) /\ evt.channel = "C2"
    /\ mainPc = "recv"
    /\ sent = <<Ack, PostMessage("C2", NotATarotDeck)>>

\* C8: a failed post is logged and nothing else happens: no second post, no
\* second acknowledgement, the loop is back at the receive, and the process
\* is not ended by it: it exits only through the log.Fatal calls of start-up,
\* socketClient.Run and http.ListenAndServe.
C8_PostFailureOnlyLogged ==
    /\ ~alive => fatal \in {"Error: tokens must be set",
                             "Error running socketmode client",
                             "Error starting HTTP server"}
    /\ postErr =>
          /\ mainPc = "recv"
          /\ CountCalls(sent, "PostMessage") = 1
          /\ CountCalls(sent, "Ack") = 1
          /\ Cardinality({i \in 1..Len(mlog) : mlog[i].msg = "Error sending message"}) = 1
    /\ (MentionDone /\ ~postErr) =>
          \A i \in 1..Len(mlog) : mlog[i].msg # "Error sending message"

C8_Witness ==
    /\ alive
    /\ prevFailed
    /\ MentionDone
    /\ sent = <<Ack, PostMessage(evt.channel, mreply)>>

\* C9: a successfully handled slash command is answered 200 with the header
\* Content-Type: application/json in effect and the body {"text": reply}, and
\* one status is committed.
C9_JsonResponse ==
    SlashAccepted =>
        /\ resp.status = 200
        /\ resp.sentHeader.ct = "application/json"
        /\ resp.body = Marshal(sreply)
        /\ resp.extra = 0

\* C10: a text ending in "?" whose lower-cased form starts with who, what,
\* when, where, why, how or if (no word boundary needed) is answered with
\* exactly the tarot-deck rejection, and no random draw is made.
C10_OpenEndedRejected ==
    /\ (IsMention(evt) /\ mainPc \in {"post", "recv"} /\ OpenEnded(userQuery)) =>
          (mreply = NotATarotDeck /\ mdraw = NoDraw)
    /\ (SlashAccepted /\ OpenEnded(payloadText)) =>
          (sreply = NotATarotDeck /\ sdraw = NoDraw)

C10_Witness ==
    /\ MentionDone
    /\ evt.text = However
    /\ userQuery = However
    /\ sent = <<Ack, PostMessage(evt.channel, NotATarotDeck)>>

====
